---- MODULE Spec2Model ----
(***************************************************************************)
(* A model of NetSpect's three network probers and of the command wiring   *)
(* in front of them:                                                       *)
(*   - cli._parse_ports and the scan command, discovery.scan_ports         *)
(*   - the dns command, dns_utils.resolve_hostname                         *)
(*   - discovery.ping_host                                                 *)
(* Strings that the code parses (port specifications) are sequences of     *)
(* one-character strings. What the network answers is an input: the host   *)
(* scanned and the ping responses are chosen in the initial state, the     *)
(* outcome of each DNS query when the query is issued.                     *)
(***************************************************************************)
EXTENDS Integers, Sequences, FiniteSets, TLC

VARIABLES
    \* ---- scan command -------------------------------------------------
    pc,                 \* position of the running command
    port_str,           \* --ports option: None or a sequence of characters
    listed,             \* ghost: what each comma-separated segment of port_str denotes
    host,               \* the network as the scan sees it (resolution, open ports, services)
    timeout,            \* --timeout option, in milliseconds
    parsed_ports,       \* cli.scan: parsed_ports
    exit_code,          \* process exit code once the command ended
    port_idx,           \* scan_ports: position of the for loop in ports
    sock,               \* scan_ports: the sockets currently open (ports they probe)
    open_ports,         \* scan_ports: open_ports
    closed_ports_count, \* scan_ports: closed_ports_count
    io_log,             \* ghost: network operations performed, in order
    console,            \* what was printed (message records, in order)
    scan_result,        \* value returned by scan_ports (meaningful once pc = "returned")
    raised,             \* exception that escaped the running function ("none" if none)
    \* ---- dns command --------------------------------------------------
    types,              \* --type options: NoTypes or a sequence of type strings
    canonical,          \* what gethostbyname_ex answers: "same", "alias" or "gaierror"
    valid_types,        \* cli.dns: valid_types, the record_types of resolve_hostname
    r_idx,              \* resolve_hostname: position of the for loop in record_types
    results,            \* resolve_hostname: results
    dns_log,            \* ghost: the queries issued and how each ended, in order
    \* ---- ping command -------------------------------------------------
    count,              \* --count option
    transport,          \* whether pythonping's ping raises ("raises") or answers ("ok")
    response_list,      \* the ResponseList it answers with, one Response per packet
    ping_idx,           \* ping_host: position of the for loop in response_list
    total_rtt,          \* ping_host: total_rtt
    successful_pings,   \* ping_host: successful_pings
    min_rtt,            \* ping_host: min_rtt
    max_rtt,            \* ping_host: max_rtt
    all_successful,     \* ping_host: all_successful
    ping_stats,         \* the statistics printed by lines 40-45 (NoStats if none were)
    ping_result         \* value returned by ping_host (meaningful once pc = "returned")

scanVars == <<port_str, listed, host, timeout, parsed_ports, port_idx, sock,
              open_ports, closed_ports_count, scan_result>>

dnsVars == <<types, canonical, valid_types, r_idx, results, dns_log>>

\* shared by the commands: position, exit code, operations, output, escaped exception
runVars == <<pc, exit_code, io_log, console, raised>>

pingVars == <<count, transport, response_list, ping_idx, total_rtt, successful_pings,
              min_rtt, max_rtt, all_successful, ping_stats, ping_result>>

vars == <<runVars, scanVars, dnsVars, pingVars>>

\* Python's None for the optional --ports string (no character sequence equals it)
None == <<"None">>

\* ------------------------------------------------------------------------
\* Bounds of the model
\* ------------------------------------------------------------------------
MaxSegments == 2        \* comma-separated segments in an enumerated port specification
MaxTypes == 2           \* --type options in an enumerated dns command
MaxCount == 4           \* packets of an enumerated ping session

\* ------------------------------------------------------------------------
\* Characters and Python's str / int primitives used by _parse_ports
\* ------------------------------------------------------------------------
Digits == {"0", "1", "2", "3", "4", "5", "6", "7", "8", "9"}
Whitespace == {" "}

DigitVal(c) ==
    CASE c = "0" -> 0 [] c = "1" -> 1 [] c = "2" -> 2 [] c = "3" -> 3 [] c = "4" -> 4
      [] c = "5" -> 5 [] c = "6" -> 6 [] c = "7" -> 7 [] c = "8" -> 8 [] c = "9" -> 9

\* str.lstrip() / str.rstrip() / str.strip()
RECURSIVE LStrip(_)
LStrip(s) == IF s # <<>> /\ Head(s) \in Whitespace THEN LStrip(Tail(s)) ELSE s

RECURSIVE RStrip(_)
RStrip(s) ==
    IF s # <<>> /\ s[Len(s)] \in Whitespace THEN RStrip(SubSeq(s, 1, Len(s) - 1)) ELSE s

Strip(s) == RStrip(LStrip(s))

\* c in s
Contains(s, c) == \E i \in 1..Len(s) : s[i] = c

\* index of the first c in s (s contains c)
FirstIndex(s, c) == CHOOSE i \in 1..Len(s) : s[i] = c /\ \A j \in 1..(i - 1) : s[j] # c

\* s.split(c, 1) for an s that contains c
SplitOnce(s, c) ==
    LET i == FirstIndex(s, c) IN <<SubSeq(s, 1, i - 1), SubSeq(s, i + 1, Len(s))>>

\* s.split(c)
RECURSIVE Split(_, _)
Split(s, c) ==
    IF Contains(s, c)
    THEN LET two == SplitOnce(s, c) IN <<two[1]>> \o Split(two[2], c)
    ELSE <<s>>

\* value of a non-empty sequence of digits
RECURSIVE DigitsValue(_)
DigitsValue(ds) ==
    IF Len(ds) = 1 THEN DigitVal(ds[1])
    ELSE 10 * DigitsValue(SubSeq(ds, 1, Len(ds) - 1)) + DigitVal(ds[Len(ds)])

\* int(s): surrounding whitespace is ignored, one optional sign, then digits only;
\* anything else is a ValueError (ok = FALSE).
ParseInt(s) ==
    LET t == Strip(s)
        signed == t # <<>> /\ Head(t) \in {"+", "-"}
        body == IF signed THEN Tail(t) ELSE t
        digits == body # <<>> /\ \A i \in 1..Len(body) : body[i] \in Digits
    IN  IF ~digits THEN [ok |-> FALSE, val |-> 0]
        ELSE [ok |-> TRUE,
              val |-> IF signed /\ Head(t) = "-" THEN 0 - DigitsValue(body)
                      ELSE DigitsValue(body)]

\* ------------------------------------------------------------------------
\* cli._parse_ports
\* ------------------------------------------------------------------------
MaxPort == 65535

DEFAULT_PORTS == <<21, 22, 23, 25, 53, 80, 110, 143, 443, 465, 587, 993, 995,
                   3306, 3389, 5432, 5900, 8080, 8443>>

\* the test of a single port (cli.py line 43)
PortValid(p) == 0 < p /\ p <= MaxPort

\* mutant of RangeValid: the start <= end test is forgotten
RangeValid_noorder(a, b) == 0 < a /\ a <= MaxPort /\ 0 < b /\ b <= MaxPort

\* the test of a range (cli.py line 34)
RangeValid(a, b) == 0 < a /\ a <= MaxPort /\ 0 < b /\ b <= MaxPort /\ a <= b

\* mutant of SortedList: the set is listed without sorting it ascending
RECURSIVE SortedList_unsorted(_)
SortedList_unsorted(S) ==
    IF S = {} THEN <<>>
    ELSE LET m == CHOOSE x \in S : \A y \in S : x >= y
         IN  <<m>> \o SortedList_unsorted(S \ {m})

\* sorted(list(ports))
RECURSIVE SortedList(_)
SortedList(S) ==
    IF S = {} THEN <<>>
    ELSE LET m == CHOOSE x \in S : \A y \in S : x <= y
         IN  <<m>> \o SortedList(S \ {m})

ParseExit(kind, part) == [exit |-> 1, error |-> kind, part |-> part, ports |-> <<>>]
ParseReturn(list) == [exit |-> 0, error |-> "none", part |-> <<>>, ports |-> list]

\* the for loop over parts (cli.py lines 27-48) and what follows it (49-52)
RECURSIVE ParseLoop(_, _)
ParseLoop(parts, ports) ==
    IF parts = <<>>
    THEN IF ports = {} THEN ParseExit("No valid ports specified", <<>>)
         ELSE ParseReturn(SortedList(ports))
    ELSE LET part == Strip(Head(parts)) IN
         IF part = <<>> THEN ParseLoop(Tail(parts), ports)
         ELSE IF Contains(part, "-")
         THEN LET two == SplitOnce(part, "-")
                  start_port == ParseInt(two[1])
                  end_port == ParseInt(two[2])
              IN  IF start_port.ok /\ end_port.ok /\ RangeValid(start_port.val, end_port.val)
                  THEN ParseLoop(Tail(parts), ports \cup (start_port.val..end_port.val))
                  ELSE ParseExit("Invalid port range", part)
         ELSE LET port_val == ParseInt(part)
              IN  IF port_val.ok /\ PortValid(port_val.val)
                  THEN ParseLoop(Tail(parts), ports \cup {port_val.val})
                  ELSE ParseExit("Invalid port number", part)

\* _parse_ports(port_str): `not port_str` holds for None and for the empty string
ParsePorts(str) ==
    IF str = None \/ str = <<>> THEN ParseReturn(DEFAULT_PORTS)
    ELSE ParseLoop(Split(str, ","), {})

\* ------------------------------------------------------------------------
\* The network as one scan sees it
\* ------------------------------------------------------------------------
\* /etc/services entries getservbyport can find
STANDARD_SERVICES == [p \in {21, 22, 80, 443} |->
    CASE p = 21 -> "ftp" [] p = 22 -> "ssh" [] p = 80 -> "http" [] p = 443 -> "https"]
NO_SERVICES == [p \in {} |-> ""]

\* ports that may accept a connection on an enumerated host
CandidateOpen == {1, 2, 22, 80, 443}

Host(res, all, open, db) ==
    [resolution |-> res, all_open |-> all, open |-> open, services |-> db]

\* mutant of ResolveFails: only gaierror is handled as a failed resolution
ResolveFails_gaierror_only(h) == h.resolution = "gaierror"

\* socket.gethostbyname(target) raises (gaierror, or anything else) unless "ok"
ResolveFails(h) == h.resolution # "ok"

\* sock.connect_ex((target_ip, port)) == 0
ConnectSucceeds(h, port) == h.all_open \/ port \in h.open

\* mutant of ServiceName: the "unknown" default is lost when the lookup raises
ServiceName_nodefault(h, port) ==
    IF port \in DOMAIN h.services THEN h.services[port] ELSE ""

\* service_name after lines 83-89: getservbyport's answer, "unknown" when it raises
ServiceName(h, port) ==
    IF port \in DOMAIN h.services THEN h.services[port] ELSE "unknown"

\* the record appended for an open port (line 90)
OpenRecord(h, port) == <<port, "open", ServiceName(h, port)>>

\* the list comprehension of the return statement (line 105)
RECURSIVE ReturnedList(_)
ReturnedList(recs) ==
    IF recs = <<>> THEN <<>>
    ELSE <<<<Head(recs)[1], Head(recs)[2]>>>> \o ReturnedList(Tail(recs))

Msg(level, text, a, b) == [level |-> level, text |-> text, a |-> a, b |-> b]

\* ------------------------------------------------------------------------
\* The scan command: cli.scan, then discovery.scan_ports
\* ------------------------------------------------------------------------
\* cli.scan line 88: parsed_ports = _parse_ports(ports_str); typer.Exit(1) ends the command
CliScanParse ==
    /\ pc = "scan_cmd"
    /\ LET r == ParsePorts(port_str) IN
        IF r.exit = 1
        THEN /\ pc' = "exited"
             /\ exit_code' = 1
             /\ console' = Append(console, Msg("error", r.error, 0, 0))
             /\ UNCHANGED parsed_ports
        ELSE /\ pc' = "resolve"
             /\ parsed_ports' = r.ports
             /\ UNCHANGED <<exit_code, console>>
    /\ UNCHANGED <<dnsVars, pingVars>>
    /\ UNCHANGED <<port_str, listed, host, timeout, port_idx, sock, open_ports,
                   closed_ports_count, io_log, scan_result, raised>>

\* scan_ports lines 56-70: the resolution step
ScanResolve ==
    /\ pc = "resolve"
    /\ io_log' = Append(io_log, <<"gethostbyname", 0>>)
    /\ IF ResolveFails(host)
       THEN /\ pc' = "returned"
            /\ scan_result' = <<>>
            /\ exit_code' = 0
            /\ console' = Append(console,
                 Msg("error", IF host.resolution = "gaierror" THEN "Cannot resolve hostname"
                              ELSE "An unexpected error occurred resolving hostname", 0, 0))
       ELSE /\ pc' = "loop"
            /\ console' = Append(console, Msg("info", "Scanning", Len(parsed_ports), 0))
            /\ UNCHANGED <<scan_result, exit_code>>
    /\ UNCHANGED <<dnsVars, pingVars>>
    /\ UNCHANGED <<port_str, listed, host, timeout, parsed_ports, port_idx, sock, open_ports,
                   closed_ports_count, raised>>

\* sock.settimeout(timeout) accepts a timeout that is not negative (else ValueError)
TimeoutAccepted(t) == t >= 0

\* lines 79-80: a socket for the next port of the loop, and its timeout. A negative
\* timeout makes settimeout raise ValueError, which nothing in scan_ports catches:
\* the function is left with the socket just created not closed.
ScanSocket ==
    /\ pc = "loop"
    /\ port_idx <= Len(parsed_ports)
    /\ sock' = sock \cup {parsed_ports[port_idx]}
    /\ io_log' = Append(io_log, <<"socket", parsed_ports[port_idx]>>)
    /\ IF TimeoutAccepted(timeout)
       THEN /\ pc' = "connect"
            /\ UNCHANGED <<raised, exit_code>>
       ELSE /\ raised' = "ValueError"
            /\ pc' = "raised"
            /\ exit_code' = 1
    /\ UNCHANGED <<dnsVars, pingVars>>
    /\ UNCHANGED <<port_str, listed, host, timeout, parsed_ports, port_idx, open_ports,
                   closed_ports_count, console, scan_result>>

\* lines 80-92: connect_ex and the classification of the port
ScanConnect ==
    /\ pc = "connect"
    /\ LET port == parsed_ports[port_idx] IN
        /\ io_log' = Append(io_log, <<"connect", port>>)
        /\ IF ConnectSucceeds(host, port)
           THEN /\ open_ports' = Append(open_ports, OpenRecord(host, port))
                /\ UNCHANGED closed_ports_count
           ELSE /\ closed_ports_count' = closed_ports_count + 1
                /\ UNCHANGED open_ports
    /\ pc' = "close"
    /\ UNCHANGED <<dnsVars, pingVars>>
    /\ UNCHANGED <<port_str, listed, host, timeout, parsed_ports, exit_code, port_idx, sock,
                   console, scan_result, raised>>

\* mutant of ScanClose: sock.close() is missing, the loop just moves on
ScanClose_noclose ==
    /\ pc = "close"
    /\ port_idx' = port_idx + 1
    /\ pc' = "loop"
    /\ UNCHANGED <<dnsVars, pingVars>>
    /\ UNCHANGED <<port_str, listed, host, timeout, parsed_ports, exit_code, open_ports,
                   closed_ports_count, console, scan_result, raised, sock, io_log>>

\* line 93: sock.close(), and the loop moves to the next port
ScanClose ==
    /\ pc = "close"
    /\ sock' = sock \ {parsed_ports[port_idx]}
    /\ io_log' = Append(io_log, <<"close", parsed_ports[port_idx]>>)
    /\ port_idx' = port_idx + 1
    /\ pc' = "loop"
    /\ UNCHANGED <<dnsVars, pingVars>>
    /\ UNCHANGED <<port_str, listed, host, timeout, parsed_ports, exit_code, open_ports,
                   closed_ports_count, console, scan_result, raised>>

\* lines 97-105 after the loop. discovery.py imports print_success, print_error and
\* print_info but not print_warning (line 8): the else branch of line 101 raises
\* NameError, which nothing catches, so the command ends with a traceback.
ScanReport ==
    /\ pc = "loop"
    /\ port_idx > Len(parsed_ports)
    /\ IF open_ports # <<>>
       THEN /\ console' = console \o
                 <<Msg("success", "Open ports", Len(open_ports), 0),
                   Msg("info", "Summary", Len(open_ports), closed_ports_count)>>
            /\ scan_result' = ReturnedList(open_ports)
            /\ pc' = "returned"
            /\ exit_code' = 0
            /\ UNCHANGED raised
       ELSE /\ raised' = "NameError"
            /\ pc' = "raised"
            /\ exit_code' = 1
            /\ UNCHANGED <<console, scan_result>>
    /\ UNCHANGED <<dnsVars, pingVars>>
    /\ UNCHANGED <<port_str, listed, host, timeout, parsed_ports, port_idx, sock, open_ports,
                   closed_ports_count, io_log>>

NextScan ==
    \/ CliScanParse
    \/ ScanResolve
    \/ ScanSocket
    \/ ScanConnect
    \/ ScanClose
    \/ ScanReport

\* float('inf'), the initial min_rtt, and a finite round-trip time
Infinity == [inf |-> TRUE, ms |-> 0]
Finite(ms) == [inf |-> FALSE, ms |-> ms]

\* no statistics printed
NoStats ==
    [printed |-> FALSE, sent |-> 0, received |-> 0, lost |-> 0,
     loss |-> [num |-> 0, den |-> 1], minimum |-> Infinity, maximum |-> 0,
     average |-> [num |-> 0, den |-> 1]]

\* the variables of the other commands while one command runs
PingIdle ==
    /\ count = 0
    /\ transport = "ok"
    /\ response_list = <<>>
    /\ ping_idx = 1
    /\ total_rtt = 0
    /\ successful_pings = 0
    /\ min_rtt = Infinity
    /\ max_rtt = 0
    /\ all_successful = TRUE
    /\ ping_stats = NoStats
    /\ ping_result = FALSE

DnsIdle ==
    /\ types = <<>>
    /\ canonical = "same"
    /\ valid_types = <<>>
    /\ r_idx = 1
    /\ results = <<>>
    /\ dns_log = <<>>

\* ------------------------------------------------------------------------
\* Enumerated inputs of the scan command
\* ------------------------------------------------------------------------
\* What a segment denotes: "single" lo, "range" lo..hi, "blank" (nothing but
\* whitespace) or "bad" (neither a port in 1..65535 nor a range of them).
Seg(text, kind, lo, hi) == [text |-> text, kind |-> kind, lo |-> lo, hi |-> hi]

GoodSegments ==
    { Seg(<<"8", "0">>, "single", 80, 80),
      Seg(<<"4", "4", "3">>, "single", 443, 443),
      Seg(<<" ", "2", "2", " ">>, "single", 22, 22),
      Seg(<<"1">>, "single", 1, 1),
      Seg(<<"6", "5", "5", "3", "5">>, "single", 65535, 65535),
      Seg(<<"1", "-", "3">>, "range", 1, 3),
      Seg(<<"2", "-", "2">>, "range", 2, 2),
      Seg(<<"7", "9", "-", "8", "0">>, "range", 79, 80),
      Seg(<<"6", "5", "5", "3", "4", "-", "6", "5", "5", "3", "5">>, "range", 65534, 65535) }

BlankSegments ==
    { Seg(<<>>, "blank", 0, 0),
      Seg(<<" ">>, "blank", 0, 0) }

BadSegments ==
    { Seg(<<"0">>, "bad", 0, 0),
      Seg(<<"6", "5", "5", "3", "6">>, "bad", 0, 0),
      Seg(<<"7", "0", "0", "0", "0">>, "bad", 0, 0),
      Seg(<<"5", "-", "3">>, "bad", 0, 0),
      Seg(<<"0", "-", "2">>, "bad", 0, 0),
      Seg(<<"1", "-", "6", "5", "5", "3", "6">>, "bad", 0, 0),
      Seg(<<"x">>, "bad", 0, 0),
      Seg(<<"8", "x">>, "bad", 0, 0),
      Seg(<<"-", "5">>, "bad", 0, 0),
      Seg(<<"3", "-">>, "bad", 0, 0),
      Seg(<<"1", "-", "2", "-", "3">>, "bad", 0, 0) }

Segments == GoodSegments \cup BlankSegments \cup BadSegments

\* ",".join of the segments' texts
RECURSIVE JoinTexts(_)
JoinTexts(segs) ==
    IF segs = <<>> THEN <<>>
    ELSE IF Len(segs) = 1 THEN segs[1].text
    ELSE segs[1].text \o <<",">> \o JoinTexts(Tail(segs))

\* the enumerated --timeout values: the default 0.5 s, and a negative one
Timeouts == {500, -1000}

SegmentLists(S) == UNION {[1..n -> S] : n \in 0..MaxSegments}

InitScanWith(SegSet, Hosts) ==
    /\ pc = "scan_cmd"
    /\ \E given \in BOOLEAN :
         \E segs \in (IF given THEN SegmentLists(SegSet) ELSE {<<>>}) :
            /\ port_str = IF given THEN JoinTexts(segs) ELSE None
            /\ listed = segs
    /\ host \in Hosts
    /\ timeout \in Timeouts
    /\ parsed_ports = <<>>
    /\ exit_code = -1
    /\ port_idx = 1
    /\ sock = {}
    /\ open_ports = <<>>
    /\ closed_ports_count = 0
    /\ io_log = <<>>
    /\ console = <<>>
    /\ scan_result = <<>>
    /\ raised = "none"
    /\ DnsIdle
    /\ PingIdle

\* hosts of the parser's specification: unresolvable, nothing open, everything open
ParseHosts ==
    { Host("gaierror", FALSE, {}, NO_SERVICES),
      Host("ok", FALSE, {}, STANDARD_SERVICES),
      Host("ok", TRUE, {}, STANDARD_SERVICES) }

\* hosts of the scanner's specification
ScanHosts ==
    { Host("gaierror", FALSE, {}, NO_SERVICES), Host("error", FALSE, {}, NO_SERVICES) }
    \cup { Host("ok", all, IF all THEN {} ELSE open, db) :
             all \in BOOLEAN, open \in SUBSET CandidateOpen,
             db \in {STANDARD_SERVICES, NO_SERVICES} }

ScanSegments ==
    { s \in GoodSegments : s.text \in {<<"8", "0">>, <<"4", "4", "3">>, <<"1", "-", "3">>,
                                       <<" ", "2", "2", " ">>} }

InitParse == InitScanWith(Segments, ParseHosts)
InitScan == InitScanWith(ScanSegments, ScanHosts)

\* the scan command over every enumerated port specification
SpecParse == InitParse /\ [][NextScan]_vars
\* the scan command over every enumerated host
SpecScan == InitScan /\ [][NextScan]_vars

\* ------------------------------------------------------------------------
\* Properties of the port specification parser (SpecParse)
\* ------------------------------------------------------------------------
ParseReturned == pc \notin {"scan_cmd", "exited"}

\* ghost: the ports the listed segments denote
ListedPorts ==
    UNION { listed[i].lo..listed[i].hi :
              i \in {j \in 1..Len(listed) : listed[j].kind \in {"single", "range"}} }

NoSpecification == port_str = None \/ port_str = <<>>

\* C1: whenever _parse_ports returns a list, the list is non-empty, strictly
\* ascending (hence free of duplicates), every element is in 1..65535, and it holds
\* exactly the ports of the listed singles and ranges; with no specification it is
\* the default list of 19 ports.
C1_PortSetCanonical ==
    ParseReturned =>
        /\ parsed_ports # <<>>
        /\ \A i, j \in 1..Len(parsed_ports) : i < j => parsed_ports[i] < parsed_ports[j]
        /\ \A i \in 1..Len(parsed_ports) : parsed_ports[i] \in 1..65535
        /\ IF NoSpecification
           THEN /\ Len(parsed_ports) = 19
                /\ parsed_ports = <<21, 22, 23, 25, 53, 80, 110, 143, 443, 465, 587, 993,
                                    995, 3306, 3389, 5432, 5900, 8080, 8443>>
           ELSE {parsed_ports[i] : i \in 1..Len(parsed_ports)} = ListedPorts

\* a range and a single port inside it were listed and parsed: 3 ports, not 4
C1_Witness ==
    /\ pc = "resolve"
    /\ Len(listed) = 2
    /\ listed[1].kind = "single" /\ listed[1].lo = 1
    /\ listed[2].kind = "range" /\ listed[2].lo = 1 /\ listed[2].hi = 3
    /\ parsed_ports = <<1, 2, 3>>

SomeBadSegment == \E i \in 1..Len(listed) : listed[i].kind = "bad"
SomeBadOrBlankSegment == \E i \in 1..Len(listed) : listed[i].kind \in {"bad", "blank"}

ParseFailedCleanly ==
    /\ pc = "exited"
    /\ exit_code = 1
    /\ parsed_ports = <<>>
    /\ io_log = <<>>
    /\ sock = {}

\* C2 as stated: any segment that, trimmed, is neither a port in 1..65535 nor a
\* range of them (an empty segment is neither) fails the whole parse with exit
\* code 1, no port set, no resolution and no connect attempt.
C2_AnyNonPortSegmentFails ==
    (pc # "scan_cmd" /\ port_str # <<>> /\ SomeBadOrBlankSegment) => ParseFailedCleanly

\* C2 amended: any segment that is non-empty after trimming and is neither a port
\* in 1..65535 nor a range A-B of them with A <= B fails the whole parse with exit
\* code 1: no port set is returned, nothing is resolved, no socket is created.
C2_FailFast ==
    (pc # "scan_cmd" /\ SomeBadSegment) => ParseFailedCleanly

\* a valid segment followed by a reversed range: the port already collected is dropped
C2_Witness ==
    /\ pc = "exited"
    /\ exit_code = 1
    /\ Len(listed) = 2
    /\ listed[1].kind = "single"
    /\ listed[2].text = <<"5", "-", "3">>
    /\ parsed_ports = <<>>

\* ------------------------------------------------------------------------
\* Properties of scan_ports (SpecScan)
\* ------------------------------------------------------------------------
LoggedPorts(op) ==
    LET IsOp(e) == e[1] = op
        es == SelectSeq(io_log, IsOp)
    IN  [i \in 1..Len(es) |-> es[i][2]]

\* C3: when resolving the target fails, scan_ports returns an empty result and
\* no socket is ever created and no connect attempted.
C3_NoProbeWithoutAddress ==
    host.resolution # "ok" =>
        /\ sock = {}
        /\ LoggedPorts("socket") = <<>>
        /\ LoggedPorts("connect") = <<>>
        /\ pc \in {"scan_cmd", "exited", "resolve", "returned"}
        /\ pc = "returned" => scan_result = <<>> /\ open_ports = <<>>

\* an unresolvable name with ports to scan: returned empty after the one lookup
C3_Witness ==
    /\ pc = "returned"
    /\ host.resolution = "gaierror"
    /\ Len(parsed_ports) > 1
    /\ io_log = <<<<"gethostbyname", 0>>>>
    /\ scan_result = <<>>

ScanEnded == pc \in {"returned", "raised"} /\ host.resolution = "ok" /\ timeout >= 0

AcceptsOn(p) == host.all_open \/ p \in host.open

SucceededPorts == SelectSeq(parsed_ports, AcceptsOn)

SummaryPrinted(n_open, n_closed) ==
    \E i \in 1..Len(console) : console[i] = Msg("info", "Summary", n_open, n_closed)

\* C4: for a resolved target, scan_ports probes each port exactly once and ends
\* with a summary whose open and closed/filtered counts add up to the number of
\* ports; it returns exactly the ports whose connect succeeded, in ascending order,
\* whatever the number of open ports (zero included).
C4_EveryPortAccounted ==
    ScanEnded =>
        /\ pc = "returned"
        /\ LoggedPorts("connect") = parsed_ports
        /\ \E n \in 0..Len(parsed_ports) :
              /\ n = Len(open_ports)
              /\ SummaryPrinted(n, Len(parsed_ports) - n)
        /\ [i \in 1..Len(scan_result) |-> scan_result[i][1]] = SucceededPorts

\* C5 as stated: scan returns (port, status, service) records, one per port whose
\* connect succeeded.
C5_ReturnsServiceRecords ==
    (pc = "returned" /\ host.resolution = "ok") =>
        /\ Len(scan_result) = Len(SucceededPorts)
        /\ \A i \in 1..Len(scan_result) : Len(scan_result[i]) = 3

ExpectedService(p) ==
    IF p \in DOMAIN host.services THEN host.services[p] ELSE "unknown"

ProbedSucceeded == SelectSeq(LoggedPorts("connect"), AcceptsOn)

\* C5 amended: every port whose connect succeeded is recorded (and reported) as
\* (port, open, service), the service being the looked-up name or "unknown" when
\* the lookup fails, a failing lookup never changing the classification nor
\* dropping the port; whenever scan_ports returns a list for a resolved target, it
\* holds (port, open) pairs for exactly those ports, without the service name.
C5_OpenRecords ==
    /\ open_ports = [i \in 1..Len(ProbedSucceeded) |->
                        <<ProbedSucceeded[i], "open", ExpectedService(ProbedSucceeded[i])>>]
    /\ (pc = "returned" /\ host.resolution = "ok") =>
          scan_result = [i \in 1..Len(open_ports) |-> <<open_ports[i][1], "open">>]

\* a finished scan with a named open port and an open port that has no service entry
C5_Witness ==
    /\ pc = "returned"
    /\ \E i, j \in 1..Len(open_ports) :
          /\ open_ports[i][3] = "unknown"
          /\ open_ports[j][3] = "http"
    /\ Len(scan_result) = Len(open_ports)
    /\ closed_ports_count > 0

\* ------------------------------------------------------------------------
\* dns_utils: record types, resolver answers and their formatting
\* ------------------------------------------------------------------------
SUPPORTED_RECORD_TYPES == <<"A", "AAAA", "MX", "NS", "CNAME", "TXT", "SOA", "SRV">>

Supported(t) == \E i \in 1..Len(SUPPORTED_RECORD_TYPES) : SUPPORTED_RECORD_TYPES[i] = t

\* str.upper() on the type strings the model enumerates
Upper(t) ==
    CASE t = "a" -> "A" [] t = "mx" -> "MX" [] t = "txt" -> "TXT" [] t = "ptr" -> "PTR"
      [] OTHER -> t

\* absent --type option
NoTypes == <<"None">>

\* a DNS name: its labels, and whether it is absolute (ends with the root label)
Name(labels) == [labels |-> labels, absolute |-> TRUE]

RECURSIVE JoinDots(_)
JoinDots(labels) ==
    IF labels = <<>> THEN ""
    ELSE IF Len(labels) = 1 THEN labels[1]
    ELSE labels[1] \o "." \o JoinDots(Tail(labels))

\* dns.name.Name.to_text(omit_final_dot)
NameToText(n, omit_final_dot) ==
    JoinDots(n.labels) \o (IF n.absolute /\ ~omit_final_dot THEN "." ELSE "")

NoName == [labels |-> <<>>, absolute |-> FALSE]

\* one rdata of an answer; `decodable` is whether every string of a TXT rdata is UTF-8
BlankRdata ==
    [address |-> "", target |-> NoName, preference |-> 0, exchange |-> NoName,
     mname |-> NoName, rname |-> NoName, serial |-> 0, strings |-> <<>>,
     decodable |-> TRUE, priority |-> 0, weight |-> 0, port |-> 0]

AddressRdata(a) == [BlankRdata EXCEPT !.address = a]
TargetRdata(n) == [BlankRdata EXCEPT !.target = n]
MxRdata(pref, n) == [BlankRdata EXCEPT !.preference = pref, !.exchange = n]
TxtRdata(strs, ok) == [BlankRdata EXCEPT !.strings = strs, !.decodable = ok]
SoaRdata(m, r, ser) == [BlankRdata EXCEPT !.mname = m, !.rname = r, !.serial = ser]
SrvRdata(pr, w, po, n) ==
    [BlankRdata EXCEPT !.priority = pr, !.weight = w, !.port = po, !.target = n]

\* " ".join(...) of the strings of a TXT rdata
RECURSIVE JoinSpaces(_)
JoinSpaces(strs) ==
    IF strs = <<>> THEN ""
    ELSE IF Len(strs) = 1 THEN strs[1]
    ELSE strs[1] \o " " \o JoinSpaces(Tail(strs))

\* the string appended for one rdata (lines 26-43); for TXT only when it decodes
FormatRdata(rtype, rdata) ==
    CASE rtype = "MX" ->
            "Preference: " \o ToString(rdata.preference) \o ", Exchange: "
               \o NameToText(rdata.exchange, TRUE)
      [] rtype = "SOA" ->
            "MNAME: " \o NameToText(rdata.mname, TRUE) \o ", RNAME: "
               \o NameToText(rdata.rname, TRUE) \o ", Serial: " \o ToString(rdata.serial)
      [] rtype = "TXT" -> JoinSpaces(rdata.strings)
      [] rtype = "SRV" ->
            "Priority: " \o ToString(rdata.priority) \o ", Weight: "
               \o ToString(rdata.weight) \o ", Port: " \o ToString(rdata.port)
               \o ", Target: " \o NameToText(rdata.target, TRUE)
      [] OTHER ->
            IF rdata.address # "" THEN rdata.address ELSE NameToText(rdata.target, TRUE)

\* the `for rdata in answers` loop: what it appends. A TXT string that is not UTF-8
\* raises UnicodeDecodeError in the middle of the loop, which `except Exception`
\* (line 53) turns into an "Error: ..." entry after the answers already appended.
RECURSIVE AppendAnswers(_, _)
AppendAnswers(rtype, rdatas) ==
    IF rdatas = <<>> THEN <<>>
    ELSE IF rtype = "TXT" /\ ~Head(rdatas).decodable
         THEN <<"Error: " \o "'utf-8' codec can't decode byte">>
         ELSE <<FormatRdata(rtype, Head(rdatas))>> \o AppendAnswers(rtype, Tail(rdatas))

\* what resolver.resolve may do for one query
Response(kind, rdatas, message) == [kind |-> kind, rdatas |-> rdatas, message |-> message]

FailedResponses ==
    { Response("NXDOMAIN", <<>>, ""),
      Response("NoAnswer", <<>>, ""),
      Response("Timeout", <<>>, ""),
      Response("Other", <<>>, "All nameservers failed to answer the query") }

MailName == Name(<<"mail", "example", "com">>)

AnswerResponses(rtype) ==
    CASE rtype = "A" ->
            { Response("answers", <<AddressRdata("192.0.2.1")>>, ""),
              Response("answers", <<AddressRdata("192.0.2.1"), AddressRdata("192.0.2.2")>>, "") }
      [] rtype = "AAAA" -> { Response("answers", <<AddressRdata("2001:db8::1")>>, "") }
      [] rtype = "MX" -> { Response("answers", <<MxRdata(10, MailName)>>, "") }
      [] rtype = "TXT" ->
            { Response("answers", <<TxtRdata(<<"v=spf1", "-all">>, TRUE)>>, ""),
              Response("answers", <<TxtRdata(<<"v=spf1", "-all">>, TRUE),
                                    TxtRdata(<<>>, FALSE)>>, "") }
      [] rtype = "SOA" ->
            { Response("answers", <<SoaRdata(Name(<<"ns1", "example", "com">>),
                                             Name(<<"admin", "example", "com">>), 2024)>>, "") }
      [] rtype = "SRV" -> { Response("answers", <<SrvRdata(10, 5, 5060, MailName)>>, "") }
      [] OTHER -> { Response("answers", <<TargetRdata(Name(<<"ns1", "example", "com">>))>>, "") }

Responses(rtype) == AnswerResponses(rtype) \cup FailedResponses

\* ------------------------------------------------------------------------
\* The dns command: cli.dns, dns_utils.get_canonical_name, dns_utils.resolve_hostname
\* ------------------------------------------------------------------------
DEFAULT_TYPES == <<"A", "AAAA", "MX">>

\* line 98-99: `not types` holds for None and for the empty list
RequestedTypes(ts) == IF ts = NoTypes \/ ts = <<>> THEN DEFAULT_TYPES ELSE ts

IsSupportedType(t) == Supported(Upper(t))
IsUnsupportedType(t) == ~Supported(Upper(t))

\* line 102
ValidTypes(ts) ==
    LET kept == SelectSeq(ts, IsSupportedType)
    IN  [i \in 1..Len(kept) |-> Upper(kept[i])]

\* line 103
InvalidTypes(ts) == SelectSeq(ts, IsUnsupportedType)

\* line 115
WantsCanonicalName(vts) == \E i \in 1..Len(vts) : vts[i] \in {"A", "AAAA"}

\* cli.dns lines 98-112: defaults and validation of the types
DnsValidate ==
    /\ pc = "dns_cmd"
    /\ LET ts == RequestedTypes(types)
           valid == ValidTypes(ts)
           invalid == InvalidTypes(ts)
       IN  /\ valid_types' = valid
           /\ IF valid = <<>>
              THEN /\ pc' = "exited"
                   /\ exit_code' = 1
                   /\ console' = Append(console,
                        Msg("error", IF invalid # <<>> THEN "Unsupported DNS record type(s)"
                                     ELSE "No valid DNS record types specified", Len(invalid), 0))
              ELSE /\ pc' = IF WantsCanonicalName(valid) THEN "dns_cname" ELSE "dns_resolve"
                   /\ console' =
                        IF invalid # <<>>
                        THEN console \o <<Msg("error", "Unsupported DNS record type(s)", Len(invalid), 0),
                                          Msg("warning", "Ignoring invalid types", Len(valid), 0)>>
                        ELSE console
                   /\ UNCHANGED exit_code
    /\ UNCHANGED <<io_log, raised, types, canonical, r_idx, results, dns_log>>
    /\ UNCHANGED <<scanVars, pingVars>>

\* cli.dns lines 115-118 with get_canonical_name (dns_utils lines 74-86): one
\* forward lookup whose failures are swallowed; the hostname queried stays the same
DnsCanonicalName ==
    /\ pc = "dns_cname"
    /\ io_log' = Append(io_log, <<"gethostbyname_ex", 0>>)
    /\ console' = IF canonical = "alias"
                  THEN Append(console, Msg("dim", "is an alias for", 0, 0))
                  ELSE console
    /\ pc' = "dns_resolve"
    /\ UNCHANGED <<exit_code, raised>>
    /\ UNCHANGED <<dnsVars, scanVars, pingVars>>

\* resolve_hostname lines 13-16: one empty list per record type, then the resolver
ResolveStart ==
    /\ pc = "dns_resolve"
    /\ results' = [t \in {valid_types[i] : i \in 1..Len(valid_types)} |-> <<>>]
    /\ r_idx' = 1
    /\ console' = Append(console, Msg("info", "Performing DNS lookup", Len(valid_types), 0))
    /\ pc' = "dns_loop"
    /\ UNCHANGED <<exit_code, io_log, raised, types, canonical, valid_types, dns_log>>
    /\ UNCHANGED <<scanVars, pingVars>>

\* the entry appended by the handler of a failed query (lines 44-55)
Sentinel(resp) ==
    CASE resp.kind = "NXDOMAIN" -> "NXDOMAIN"
      [] resp.kind = "NoAnswer" -> "No Answer"
      [] resp.kind = "Timeout" -> "Timeout"
      [] OTHER -> "Error: " \o resp.message

\* the handler of dns.resolver.NoAnswer calls print_warning (line 48), a name
\* dns_utils does not import (line 5): NameError, raised inside the handler, leaves
\* resolve_hostname before "No Answer" is appended
HandlerRaises(resp) == resp.kind = "NoAnswer"

\* lines 19-55: one iteration of the loop over the record types
ResolveQuery ==
    /\ pc = "dns_loop"
    /\ r_idx <= Len(valid_types)
    /\ LET r_type == valid_types[r_idx] IN
        IF ~Supported(Upper(r_type))
        THEN /\ console' = Append(console, Msg("error", "Unsupported record type", 0, 0))
             /\ r_idx' = r_idx + 1
             /\ UNCHANGED <<pc, exit_code, io_log, raised, results, dns_log>>
        ELSE \E resp \in Responses(Upper(r_type)) :
             /\ io_log' = Append(io_log, <<"resolve", 0>>)
             /\ dns_log' = Append(dns_log, <<r_type, resp.kind>>)
             /\ IF resp.kind = "answers"
                THEN /\ results' = [results EXCEPT ![r_type] =
                                        @ \o AppendAnswers(Upper(r_type), resp.rdatas)]
                     /\ r_idx' = r_idx + 1
                     /\ UNCHANGED <<pc, exit_code, raised, console>>
                ELSE IF HandlerRaises(resp)
                THEN /\ raised' = "NameError"
                     /\ pc' = "raised"
                     /\ exit_code' = 1
                     /\ UNCHANGED <<results, r_idx, console>>
                ELSE /\ results' = [results EXCEPT ![r_type] = Append(@, Sentinel(resp))]
                     /\ console' = Append(console, Msg("error", resp.kind, 0, 0))
                     /\ r_idx' = r_idx + 1
                     /\ UNCHANGED <<pc, exit_code, raised>>
    /\ UNCHANGED <<types, canonical, valid_types>>
    /\ UNCHANGED <<scanVars, pingVars>>

\* number of rows of table_data (lines 58-64)
RECURSIVE TableRows(_, _)
TableRows(res, keys) ==
    IF keys = {} THEN 0
    ELSE LET k == CHOOSE x \in keys : TRUE
         IN  (IF res[k] # <<>> THEN Len(res[k]) ELSE 1) + TableRows(res, keys \ {k})

\* lines 57-72 after the loop: the table is displayed and results returned
ResolveReturn ==
    /\ pc = "dns_loop"
    /\ r_idx > Len(valid_types)
    /\ console' = Append(console, Msg("table", "DNS Records", TableRows(results, DOMAIN results), 0))
    /\ pc' = "returned"
    /\ exit_code' = 0
    /\ UNCHANGED <<io_log, raised>>
    /\ UNCHANGED <<dnsVars, scanVars, pingVars>>

NextDns ==
    \/ DnsValidate
    \/ DnsCanonicalName
    \/ ResolveStart
    \/ ResolveQuery
    \/ ResolveReturn

ScanIdle ==
    /\ port_str = None
    /\ listed = <<>>
    /\ host = Host("ok", FALSE, {}, NO_SERVICES)
    /\ timeout = 500
    /\ parsed_ports = <<>>
    /\ port_idx = 1
    /\ sock = {}
    /\ open_ports = <<>>
    /\ closed_ports_count = 0
    /\ scan_result = <<>>

\* the type strings an enumerated dns command is given
TypeStrings == {"A", "a", "MX", "TXT", "NS", "PTR", "ANY"}

InitDns ==
    /\ pc = "dns_cmd"
    /\ types \in {NoTypes} \cup UNION {[1..n -> TypeStrings] : n \in 0..MaxTypes}
    /\ canonical \in {"same", "alias", "gaierror"}
    /\ valid_types = <<>>
    /\ r_idx = 1
    /\ results = <<>>
    /\ dns_log = <<>>
    /\ exit_code = -1
    /\ io_log = <<>>
    /\ console = <<>>
    /\ raised = "none"
    /\ ScanIdle
    /\ PingIdle

\* the dns command over every enumerated list of types and every resolver answer
SpecDns == InitDns /\ [][NextDns]_vars

\* ------------------------------------------------------------------------
\* The ping command: cli.ping, discovery.ping_host
\* ------------------------------------------------------------------------
\* One Response of pythonping: success, time_elapsed_ms, and whether the reply line
\* of line 33 can be built from response.message, that is whether
\* message.split() exists, has five items, and the fifth holds an "="
PingResponse(success, ms, message_ok) ==
    [success |-> success, time_elapsed_ms |-> ms, message_ok |-> message_ok]

\* min(min_rtt, rtt_ms)
MinRtt(m, ms) == IF m.inf \/ ms < m.ms THEN Finite(ms) ELSE m

\* max(max_rtt, rtt_ms)
MaxRtt(m, ms) == IF ms > m THEN ms ELSE m

\* line 13-24: execute_ping sends the packets; whatever it raises is caught by the
\* except of line 49 and the session returns False
PingExecute ==
    /\ pc = "ping_cmd"
    /\ io_log' = Append(io_log, <<"ping", count>>)
    /\ IF transport = "raises"
       THEN /\ console' = console \o <<Msg("info", "Pinging", count, 0),
                                       Msg("error", "Error pinging", 0, 0)>>
            /\ ping_result' = FALSE
            /\ pc' = "returned"
            /\ exit_code' = 0
       ELSE /\ console' = Append(console, Msg("info", "Pinging", count, 0))
            /\ pc' = "ping_loop"
            /\ UNCHANGED <<ping_result, exit_code>>
    /\ UNCHANGED <<raised, count, transport, response_list, ping_idx, total_rtt,
                   successful_pings, min_rtt, max_rtt, all_successful, ping_stats>>
    /\ UNCHANGED <<scanVars, dnsVars>>

\* lines 26-36: one Response of the list. The reply line (33) indexes into
\* response.message.split(); when that raises, the except of line 49 ends the session
PingProcess ==
    /\ pc = "ping_loop"
    /\ ping_idx <= Len(response_list)
    /\ LET response == response_list[ping_idx] IN
        IF response.success
        THEN /\ total_rtt' = total_rtt + response.time_elapsed_ms
             /\ successful_pings' = successful_pings + 1
             /\ min_rtt' = MinRtt(min_rtt, response.time_elapsed_ms)
             /\ max_rtt' = MaxRtt(max_rtt, response.time_elapsed_ms)
             /\ IF response.message_ok
                THEN /\ console' = Append(console,
                                      Msg("reply", "Reply from", response.time_elapsed_ms, 0))
                     /\ ping_idx' = ping_idx + 1
                     /\ UNCHANGED <<pc, ping_result, exit_code>>
                ELSE /\ console' = Append(console, Msg("error", "Error pinging", 0, 0))
                     /\ ping_result' = FALSE
                     /\ pc' = "returned"
                     /\ exit_code' = 0
                     /\ UNCHANGED ping_idx
             /\ UNCHANGED all_successful
        ELSE /\ console' = Append(console, Msg("red", "Request timed out or host unreachable", 0, 0))
             /\ all_successful' = FALSE
             /\ ping_idx' = ping_idx + 1
             /\ UNCHANGED <<pc, ping_result, exit_code, total_rtt, successful_pings,
                            min_rtt, max_rtt>>
    /\ UNCHANGED <<io_log, raised, count, transport, response_list, ping_stats>>
    /\ UNCHANGED <<scanVars, dnsVars>>

\* the statistics of lines 39-43; a quotient is kept as numerator and denominator
Statistics(sent, received, total, lo, hi) ==
    [printed |-> TRUE, sent |-> sent, received |-> received, lost |-> sent - received,
     loss |-> [num |-> (sent - received) * 100, den |-> sent],
     minimum |-> lo, maximum |-> hi,
     average |-> [num |-> total, den |-> received]]

\* lines 38-47 after the loop
PingSummary ==
    /\ pc = "ping_loop"
    /\ ping_idx > Len(response_list)
    /\ IF successful_pings > 0
       THEN /\ ping_stats' = Statistics(count, successful_pings, total_rtt, min_rtt, max_rtt)
            /\ console' = Append(console, Msg("success", "Ping statistics", count, successful_pings))
            /\ ping_result' = TRUE
       ELSE /\ console' = Append(console, Msg("error", "No successful pings", 0, 0))
            /\ ping_result' = FALSE
            /\ UNCHANGED ping_stats
    /\ pc' = "returned"
    /\ exit_code' = 0
    /\ UNCHANGED <<io_log, raised, count, transport, response_list, ping_idx, total_rtt,
                   successful_pings, min_rtt, max_rtt, all_successful>>
    /\ UNCHANGED <<scanVars, dnsVars>>

NextPing ==
    \/ PingExecute
    \/ PingProcess
    \/ PingSummary

\* the round-trip times of the enumerated replies, in milliseconds
RoundTrips == {10, 20, 30}

PingResponses ==
    { PingResponse(FALSE, 0, TRUE) }
    \cup { PingResponse(TRUE, ms, ok) : ms \in RoundTrips, ok \in BOOLEAN }

InitPing ==
    /\ pc = "ping_cmd"
    /\ count \in 0..MaxCount
    /\ transport \in {"ok", "raises"}
    /\ response_list \in IF transport = "ok" THEN [1..count -> PingResponses] ELSE {<<>>}
    /\ ping_idx = 1
    /\ total_rtt = 0
    /\ successful_pings = 0
    /\ min_rtt = Infinity
    /\ max_rtt = 0
    /\ all_successful = TRUE
    /\ ping_stats = NoStats
    /\ ping_result = FALSE
    /\ exit_code = -1
    /\ io_log = <<>>
    /\ console = <<>>
    /\ raised = "none"
    /\ ScanIdle
    /\ DnsIdle

\* the ping command over every enumerated list of responses
SpecPing == InitPing /\ [][NextPing]_vars

\* ------------------------------------------------------------------------
\* All three commands
\* ------------------------------------------------------------------------
Init == InitScan \/ InitDns \/ InitPing

Next == NextScan \/ NextDns \/ NextPing

Spec == Init /\ [][Next]_vars

\* position in io_log of the creation of the k-th socket
SocketEvents == {i \in 1..Len(io_log) : io_log[i][1] = "socket"}

\* C11: probing is strictly sequential and a socket is scoped to one probe: at most
\* one socket is open in every state, the socket opened for a port is closed before
\* the socket for the next port is created, and no socket is open when scan_ports
\* returns, whether the connects succeeded or failed.
C11_OneSocketPerProbe ==
    /\ Cardinality(sock) <= 1
    /\ \A i, j \in SocketEvents :
          i < j => \E k \in (i + 1)..(j - 1) : io_log[k] = <<"close", io_log[i][2]>>
    /\ pc = "returned" => sock = {}

\* a scan that returned after probing an open port and then a closed one
C11_Witness ==
    /\ pc = "returned"
    /\ Cardinality(SocketEvents) >= 2
    /\ LoggedPorts("socket") = parsed_ports
    /\ LoggedPorts("close") = parsed_ports
    /\ Len(open_ports) = 1 /\ open_ports[1][1] = parsed_ports[1]
    /\ closed_ports_count = Len(parsed_ports) - 1
    /\ sock = {}

\* ------------------------------------------------------------------------
\* Properties of the dns command and resolve_hostname (SpecDns)
\* ------------------------------------------------------------------------
ResolveEnded == pc \in {"returned", "raised"}

QueriedTypes == [i \in 1..Len(dns_log) |-> dns_log[i][1]]

\* C6: whatever the outcome of each query, every requested (supported) type is
\* queried and the returned mapping has a non-empty answer list for each of them.
C6_FailureDoesNotStopSiblings ==
    ResolveEnded =>
        /\ pc = "returned"
        /\ QueriedTypes = valid_types
        /\ \A t \in DOMAIN results : results[t] # <<>>

SentinelText(kind) ==
    CASE kind = "NXDOMAIN" -> "NXDOMAIN"
      [] kind = "NoAnswer" -> "No Answer"
      [] kind = "Timeout" -> "Timeout"
      [] OTHER -> "Error: All nameservers failed to answer the query"

IsSentinel(str) ==
    str \in {"NXDOMAIN", "No Answer", "Timeout",
             "Error: All nameservers failed to answer the query",
             "Error: 'utf-8' codec can't decode byte"}

\* C7: once resolve_hostname has dealt with its queries, a type whose query failed
\* has exactly the one sentinel of that failure as its answer list (NXDOMAIN,
\* No Answer, Timeout, Error: <message>), and a type whose query succeeded has no
\* sentinel in its list.
C7_OneSentinelPerFailure ==
    ResolveEnded =>
        \A i \in 1..Len(dns_log) :
            LET t == dns_log[i][1]
                kind == dns_log[i][2]
            IN  IF kind = "answers"
                THEN \A k \in 1..Len(results[t]) : ~IsSentinel(results[t][k])
                ELSE results[t] = <<SentinelText(kind)>>

CommandEnded == pc \in {"exited", "returned", "raised"}

UpperOf(t) ==
    CASE t = "a" -> "A" [] t = "mx" -> "MX" [] t = "txt" -> "TXT" [] t = "ptr" -> "PTR"
      [] OTHER -> t

InSupportedSet(t) == UpperOf(t) \in {"A", "AAAA", "MX", "NS", "CNAME", "TXT", "SOA", "SRV"}

GivenTypes == IF types = NoTypes \/ types = <<>> THEN <<"A", "AAAA", "MX">> ELSE types

SupportedGiven ==
    LET kept == SelectSeq(GivenTypes, InSupportedSet)
    IN  [i \in 1..Len(kept) |-> UpperOf(kept[i])]

\* C8: the dns command exits with code 1, with no canonical-name lookup and no
\* query, exactly when none of the requested types is supported; otherwise it
\* queries exactly the supported requested types (A, AAAA, MX when none is given).
C8_TypeValidation ==
    CommandEnded =>
        IF SupportedGiven = <<>>
        THEN pc = "exited" /\ exit_code = 1 /\ io_log = <<>> /\ dns_log = <<>>
        ELSE exit_code = 0 /\ QueriedTypes = SupportedGiven

\* ------------------------------------------------------------------------
\* Properties of ping_host (SpecPing)
\* ------------------------------------------------------------------------
IsSuccess(r) == r.success

SuccessfulResponses == SelectSeq(response_list, IsSuccess)

RECURSIVE SumRtt(_)
SumRtt(rs) == IF rs = <<>> THEN 0 ELSE Head(rs).time_elapsed_ms + SumRtt(Tail(rs))

\* C9: after the count responses of a session are processed, sent = count and
\* received = the number of successful responses; with none received the session
\* returns failure and computes no statistics; otherwise it returns success with
\* loss% = (sent - received) / sent * 100, the smallest and largest successful RTT,
\* and average = sum of the successful RTTs / received.
C9_PingAggregation ==
    (pc = "returned" /\ transport = "ok") =>
        LET ok == SuccessfulResponses
            received == Len(ok)
        IN  IF received = 0
            THEN ping_result = FALSE /\ ping_stats = NoStats
            ELSE /\ ping_result = TRUE
                 /\ ping_stats.printed
                 /\ ping_stats.sent = count
                 /\ ping_stats.received = received
                 /\ ping_stats.loss.num * count = (count - received) * 100 * ping_stats.loss.den
                 /\ ~ping_stats.minimum.inf
                 /\ \E i \in 1..received : ok[i].time_elapsed_ms = ping_stats.minimum.ms
                 /\ \A i \in 1..received : ok[i].time_elapsed_ms >= ping_stats.minimum.ms
                 /\ \E i \in 1..received : ok[i].time_elapsed_ms = ping_stats.maximum
                 /\ \A i \in 1..received : ok[i].time_elapsed_ms <= ping_stats.maximum
                 /\ ping_stats.average.num * received = SumRtt(ok) * ping_stats.average.den

\* ------------------------------------------------------------------------
\* Properties of all three probers (Spec)
\* ------------------------------------------------------------------------
\* C10: no exception escapes ping_host, scan_ports or resolve_hostname, whatever
\* the network operations answer (the arguments being ones the sockets accept).
C10_NoExceptionEscapes == timeout >= 0 => (raised = "none" /\ pc # "raised")

====
